---------------------------- MODULE Spec2Model ----------------------------
(***************************************************************************)
(* Model of deno-http-redis: the connection pool of src/redis.js           *)
(* (RedisConnectionPool), the command gateway (redisCommand,               *)
(* handlePipelineCommand) and the request decoding of the HTTP handler.    *)
(*                                                                         *)
(* JavaScript runs the program on one thread: a handler runs without       *)
(* interruption up to its next `await`.  Every action below is one such    *)
(* run-to-the-next-await segment of a request, of a reaper pass, of        *)
(* destroy(), or the completion of an awaited backend operation.           *)
(***************************************************************************)
EXTENDS Integers, Sequences, FiniteSets, TLC

(***************************************************************************)
(* Program constants.                                                      *)
(***************************************************************************)
ACQUIRE_TIMEOUT == 10000
MAX_IDLE_TIME == 300000
CLEANUP_INTERVAL == 60000
POLL_INTERVAL == 100

(***************************************************************************)
(* Bounds of the model.  POOL_SIZE is 10 in src/redis.js:8; the model      *)
(* keeps it as a parameter and explores pools of POOL_SIZE connections.    *)
(***************************************************************************)
POOL_SIZE == 2
NumReqs == 3
MaxConns == 3
MaxTicks == 1
MaxPasses == 1
NumDestroyReqs == 2
NumGatewayReqs == 2
NumHttpReqs == 2
NumIsolationReqs == 3
NumShapeReqs == 1
MaxItems == 6

DBs == {<<"0">>, <<"1">>}
Reqs == 1..NumReqs
Passes == 1..MaxPasses
Clients == 1..MaxConns
NoClient == 0
TickSteps == {POLL_INTERVAL, MAX_IDLE_TIME}

(***************************************************************************)
(* Strings are sequences of one-character strings, so that toLowerCase,    *)
(* split and the regular expressions of the handler are computed.          *)
(***************************************************************************)
UpperChars == <<"A","B","C","D","E","F","G","H","I","J","K","L","M",
                "N","O","P","Q","R","S","T","U","V","W","X","Y","Z">>
LowerChars == <<"a","b","c","d","e","f","g","h","i","j","k","l","m",
                "n","o","p","q","r","s","t","u","v","w","x","y","z">>
Digits == {"0","1","2","3","4","5","6","7","8","9"}

LowerChar(c) ==
    IF \E i \in 1..26 : UpperChars[i] = c
    THEN LowerChars[CHOOSE i \in 1..26 : UpperChars[i] = c]
    ELSE c

toLowerCase(s) == [i \in 1..Len(s) |-> LowerChar(s[i])]

(***************************************************************************)
(* JavaScript Map: a sequence of entries in insertion order.  set() on a   *)
(* present key keeps its position, on an absent key appends; delete()      *)
(* removes the entry.                                                      *)
(***************************************************************************)
MapIndex(m, key) ==
    IF \E i \in 1..Len(m) : m[i].k = key
    THEN CHOOSE i \in 1..Len(m) : m[i].k = key
    ELSE 0

MapHas(m, key) == MapIndex(m, key) # 0

MapGet(m, key) == m[MapIndex(m, key)].v

MapSet(m, key, val) ==
    IF MapHas(m, key)
    THEN [m EXCEPT ![MapIndex(m, key)] = [k |-> key, v |-> val]]
    ELSE Append(m, [k |-> key, v |-> val])

MapDelete(m, key) ==
    IF MapHas(m, key)
    THEN SubSeq(m, 1, MapIndex(m, key) - 1) \o SubSeq(m, MapIndex(m, key) + 1, Len(m))
    ELSE m

MapKeys(m) == {m[i].k : i \in 1..Len(m)}

\* A live Map iterator that has consumed `idx` entries, after `key` is deleted.
IterAfterDelete(m, key, idx) ==
    IF MapHas(m, key) /\ MapIndex(m, key) <= idx THEN idx - 1 ELSE idx

(***************************************************************************)
(* BANNED_COMMANDS.                                                        *)
(***************************************************************************)
BANNED_COMMANDS ==
    { toLowerCase(cmd) : cmd \in {
      <<"f","l","u","s","h","d","b">>,
      <<"f","l","u","s","h","a","l","l">>,
      <<"d","u","m","p">>,
      <<"c","o","n","f","i","g","s","e","t">>,
      <<"c","o","n","f","i","g">>,
      <<"s","l","a","v","e","o","f">>,
      <<"s","l","a","v","e","o","f","n","o","o","n","e">>,
      <<"r","e","p","l","i","c","a","o","f">>,
      <<"r","e","p","l","i","c","a","o","f","n","o","o","n","e">>,
      <<"m","o","d","u","l","e","l","i","s","t">>,
      <<"m","o","d","u","l","e","l","o","a","d">>,
      <<"m","o","d","u","l","e","u","n","l","o","a","d">>,
      <<"m","o","n","i","t","o","r">>,
      <<"m","e","m","o","r","y","d","o","c","t","o","r">>,
      <<"m","e","m","o","r","y","h","e","l","p">>,
      <<"m","e","m","o","r","y","m","a","l","l","o","c","s","t","a","t","s">>,
      <<"m","e","m","o","r","y","p","u","r","g","e">>,
      <<"m","e","m","o","r","y","s","t","a","t","s">>,
      <<"m","e","m","o","r","y","u","s","a","g","e">>,
      <<"s","h","u","t","d","o","w","n">>,
      <<"s","a","v","e">>,
      <<"s","l","o","w","l","o","g">>,
      <<"s","y","n","c">>,
      <<"s","c","r","i","p","t","d","e","b","u","g">>,
      <<"s","c","r","i","p","t","f","l","u","s","h">>,
      <<"s","c","r","i","p","t","k","i","l","l">>,
      <<"s","c","r","i","p","t","l","o","a","d">>,
      <<"s","c","r","i","p","t","e","x","i","s","t","s">>,
      <<"b","g","s","a","v","e">>,
      <<"b","g","r","e","w","r","i","t","e","a","o","f">>,
      <<"k","e","y","s">> } }

\* BANNED_COMMANDS.has(command.toLowerCase()); (a variant without toLowerCase)
IsBannedExact(command) == command \in BANNED_COMMANDS

IsBanned(command) == toLowerCase(command) \in BANNED_COMMANDS

PipelineWord == <<"p","i","p","e","l","i","n","e">>

IsPipeline(command) == toLowerCase(command) = PipelineWord


(***************************************************************************)
(* Request decoding of the HTTP handler.                                   *)
(***************************************************************************)
RECURSIVE SplitFrom(_, _, _, _, _)
SplitFrom(s, sep, i, cur, acc) ==
    IF i > Len(s) THEN Append(acc, cur)
    ELSE IF s[i] = sep THEN SplitFrom(s, sep, i + 1, <<>>, Append(acc, cur))
    ELSE SplitFrom(s, sep, i + 1, Append(cur, s[i]), acc)

split(s, sep) == SplitFrom(s, sep, 1, <<>>, <<>>)

StripTrailingSlash(body) ==
    IF Len(body) > 0 /\ body[Len(body)] = "/"
    THEN SubSeq(body, 1, Len(body) - 1)
    ELSE body

\* decodeURI, for the escape %20 (a space); other characters are kept.
RECURSIVE decodeURI(_)
decodeURI(s) ==
    IF Len(s) = 0 THEN <<>>
    ELSE IF Len(s) >= 3 /\ s[1] = "%" /\ s[2] = "2" /\ s[3] = "0"
         THEN <<" ">> \o decodeURI(SubSeq(s, 4, Len(s)))
         ELSE <<s[1]>> \o decodeURI(SubSeq(s, 2, Len(s)))

\* /^\d+\// : one or more digits, then a slash.
HasDbPrefix(body) ==
    \E n \in 1..Len(body) :
        /\ n < Len(body)
        /\ \A i \in 1..n : body[i] \in Digits
        /\ body[n + 1] = "/"

WithDbPrefix(body) == IF HasDbPrefix(body) THEN body ELSE <<"0", "/">> \o body

BodyArray(body) == split(WithDbPrefix(decodeURI(StripTrailingSlash(body))), "/")

(***************************************************************************)
(* Errors and results.  A message is a sequence of tokens; "Error: " and   *)
(* "-ERR " are tokens of their own so that formatError can strip them.     *)
(***************************************************************************)
ErrorToString(name, message) ==
    IF name = "Error" THEN <<"Error: ">> \o message
    ELSE <<"Type", "Error: ">> \o message

RemoveFirst(s, tok) ==
    IF \E i \in 1..Len(s) : s[i] = tok
    THEN LET i == CHOOSE j \in 1..Len(s) : s[j] = tok /\ \A h \in 1..(j - 1) : s[h] # tok
         IN  SubSeq(s, 1, i - 1) \o SubSeq(s, i + 1, Len(s))
    ELSE s

formatError(name, message) ==
    RemoveFirst(RemoveFirst(ErrorToString(name, message), "Error: "), "-ERR ")

TimeoutMessage(dbNumber) ==
    <<"Timeout acquiring Redis connection for database ">> \o dbNumber

PipelineDeniedMessage(command) == <<"Command ">> \o command \o <<" not allowed.">>

BackendErrorMessage == <<"-ERR ", "unknown command">>
ConnectErrorMessage == <<"Connection refused">>
NotIterableMessage == <<"undefined is not iterable">>
NoSetMessage == <<"Cannot read properties of undefined (reading 'set')">>
NotAFunctionMessage == <<"pl[command.toLowerCase(...)] is not a function">>

StrVal(s) == <<"string", s>>
EmptyObject == <<"object">>
ListVal(items) == <<"list", items>>
NoResult == <<"none">>

Forbidden ==
    [success |-> FALSE, error |-> <<"Command not allowed.">>, status |-> 403,
     result |-> EmptyObject]

\* the catch of redisCommand; (a variant that returns an empty success)
FailureSwallowed(name, message) ==
    [success |-> TRUE, error |-> <<>>, status |-> 200, result |-> EmptyObject]

Failure(name, message) ==
    [success |-> FALSE, error |-> formatError(name, message), status |-> 400,
     result |-> EmptyObject]

\* the reply is returned as the backend sent it
SuccessVerbatim(reply) ==
    [success |-> TRUE, error |-> <<>>, status |-> 200, result |-> reply]

Success(reply) ==
    [success |-> TRUE, error |-> <<>>, status |-> 200,
     result |-> IF reply = StrVal("OK") THEN EmptyObject ELSE reply]

PipelineSuccess(replies) ==
    [success |-> TRUE, error |-> <<>>, status |-> 200, result |-> replies]

Pending == [success |-> FALSE, error |-> <<>>, status |-> 0, result |-> NoResult]

InvalidRequest ==
    [success |-> FALSE, error |-> <<"Invalid request format">>, status |-> 400,
     result |-> NoResult]


(***************************************************************************)
(* State.                                                                  *)
(***************************************************************************)
VARIABLES
    now,          \* Date.now()
    ticks,        \* number of clock advances so far
    conns,        \* connections opened so far: conns[c] = [db, closed]
    pools,        \* #pools : Map dbNumber -> [epoch, m : Map client -> lastUsed]
    inUse,        \* #inUse : Map client -> [dbNumber, timestamp]
    epoch,        \* number of times the maps were cleared (identity of a pool Map)
    timerOn,      \* #cleanupInterval is armed
    nextCleanup,  \* time at which the interval timer fires next
    crashed,      \* a rejected promise reached the top level
    pc,           \* pc[r] : position of request r
    call,         \* call[r] : arguments of r's redisCommand call
    client,       \* client[r] : the local variable `client`
    startTime,    \* startTime[r] of #waitForConnection
    wake,         \* wake[r] : time at which r's setTimeout fires
    result,       \* result[r] : value returned by redisCommand
    initTasks,    \* initTasks[r] : pending #addConnectionToPool calls of r's initialize
    initErr,      \* initErr[r] : r's Promise.all has rejected
    sent,         \* sent[r] : commands r has sent to the backend
    queued,       \* queued[r] : commands r has queued on its pipeline object
    acquired,     \* acquired[r] : connections handed to r by acquireConnection
    released,     \* released[r] : releaseConnection calls made for r
    rp,           \* rp[p] : state of reaper pass p
    dz,           \* state of destroy()
    backendReply, \* backendReply[r] : value r's sendCommand or flush resolved with
    ev,           \* ev[r] : r's EVALSHA dispatch in the handler
    store         \* the backend: data of each database, database selected on each connection

clockVars == <<now, ticks>>
poolVars == <<conns, pools, inUse, epoch>>
timerVars == <<timerOn, nextCleanup>>
extVars == <<backendReply, ev, store>>
reqVars == <<pc, call, client, startTime, wake, result, initTasks, initErr,
             sent, queued, acquired, released>>
vars == <<now, ticks, conns, pools, inUse, epoch, timerOn, nextCleanup, crashed,
          pc, call, client, startTime, wake, result, initTasks, initErr,
          sent, queued, acquired, released, rp, dz, backendReply, ev, store>>

(***************************************************************************)
(* The handler's response.  An element of a list reply is a string, given  *)
(* by its characters, or an integer.  The strings are words of letters or  *)
(* of digits: for them parseFloat and isFinite agree on "is a number".     *)
(***************************************************************************)
StrItem(chars) == <<"string", chars>>
IntItem(n) == <<"int", n>>
ObjVal(m) == <<"object", m>>

IsArray(value) == value[1] = "list"

\* the switch on bodyArray[1].toLowerCase()
forceArray(command) == toLowerCase(command) = <<"h","m","g","e","t">>

\* (str) => !isNaN(parseFloat(str)) && isFinite(str)
isNumeric(item) ==
    IF item[1] = "int"
    THEN TRUE
    ELSE Len(item[2]) > 0 /\ \A i \in 1..Len(item[2]) : item[2][i] \in Digits

\* result.filter((_, i) => i % 2 === 0)
keys(items) == [i \in 1..(Len(items) \div 2) |-> items[2 * i - 1]]

\* result.filter((_, i) => i % 2 === 1)
values(items) == [i \in 1..(Len(items) \div 2) |-> items[2 * i]]

allKeysAreStrings(items) == \A i \in 1..Len(keys(items)) : keys(items)[i][1] = "string"

sameItem(a, b) == a[1] = b[1] /\ a[2] = b[2]

keysAndValuesDiffer(items) ==
    \E i \in 1..Len(keys(items)) : ~sameItem(keys(items)[i], values(items)[i])

DigitValue ==
    [ch \in Digits |->
        CASE ch = "0" -> 0 [] ch = "1" -> 1 [] ch = "2" -> 2 [] ch = "3" -> 3
          [] ch = "4" -> 4 [] ch = "5" -> 5 [] ch = "6" -> 6 [] ch = "7" -> 7
          [] ch = "8" -> 8 [] ch = "9" -> 9]

RECURSIVE ToInteger(_)
\* the number a string of digits denotes
ToInteger(chars) ==
    IF chars = <<>>
    THEN 0
    ELSE 10 * ToInteger(SubSeq(chars, 1, Len(chars) - 1)) + DigitValue[chars[Len(chars)]]

\* a property name that is an integer index: the canonical decimal form of a
\* non-negative integer
IsArrayIndex(chars) ==
    /\ Len(chars) > 0
    /\ \A i \in 1..Len(chars) : chars[i] \in Digits
    /\ (chars[1] # "0" \/ Len(chars) = 1)

\* obj[key] = val on the object `resultValue = {}`, given by its own
\* properties in the order JSON.stringify writes them: the integer indices in
\* ascending order, then the other names in the order they were created.  An
\* assignment to a present name replaces its value where it is.
ObjectSet(m, key, val) ==
    IF MapHas(m, key)
    THEN MapSet(m, key, val)
    ELSE IF IsArrayIndex(key)
    THEN LET n == Cardinality({i \in 1..Len(m) :
                        IsArrayIndex(m[i].k) /\ ToInteger(m[i].k) < ToInteger(key)})
         IN  SubSeq(m, 1, n) \o <<[k |-> key, v |-> val]>> \o SubSeq(m, n + 1, Len(m))
    ELSE Append(m, [k |-> key, v |-> val])

RECURSIVE Rekey(_, _)
\* for (i = 0; i < result.length; i += 2) resultValue[result[i]] = result[i + 1]
Rekey(items, n) ==
    IF n = 0
    THEN <<>>
    ELSE ObjectSet(Rekey(items, n - 1), keys(items)[n][2], values(items)[n])

\* resultValue of the handler
resultValue(command, value) ==
    IF /\ ~forceArray(command)
       /\ IsArray(value)
       /\ Len(value[2]) % 2 = 0
       /\ Len(value[2]) > 0
    THEN IF /\ allKeysAreStrings(value[2])
            /\ keysAndValuesDiffer(value[2])
            /\ ~(/\ \A i \in 1..Len(keys(value[2])) : isNumeric(keys(value[2])[i])
                 /\ \A i \in 1..Len(values(value[2])) : isNumeric(values(value[2])[i]))
         THEN ObjVal(Rekey(value[2], Len(value[2]) \div 2))
         ELSE value
    ELSE value

\* new Response(JSON.stringify({[key]: value}), {status})
Response(status, key, value) == [status |-> status, key |-> key, value |-> value]

NoResponse == Response(0, <<>>, NoResult)

\* the response built from the value redisCommand returned
webdisResponse(command, redisResult) ==
    Response(IF redisResult.status = 0 THEN 200 ELSE redisResult.status,
             command,
             resultValue(command, redisResult.result))

(***************************************************************************)
(* EVALSHA dispatch: handleEvalsha and the scripts.  Messages of the       *)
(* dispatch are sequences of characters.                                   *)
(***************************************************************************)
Evalsha == <<"e","v","a","l","s","h","a">>

\* the script of ./scripts that lists the sets a user belongs to
MembershipScript ==
    <<"9","3","1","c","1","c","2","f","8","6","9","4","f","9","1","3",
      "3","c","3","b","9","3","9","2","9","d","3","b","1","e","b","0",
      "d","e","d","5","4","5","e","b">>

\* a script of the operator: it makes its own lookups and returns or throws
MyTestScript ==
    <<"m","y","_","t","e","s","t","_","s","c","r","i","p","t">>

\* the files of ./scripts
Scripts == {MembershipScript, MyTestScript}

\* `Script ${scriptHash} not found. Are you sure it exists?`
ScriptNotFoundMessage(scriptHash) ==
    <<"S","c","r","i","p","t"," ">>
    \o scriptHash \o
    <<" ","n","o","t"," ","f","o","u","n","d","."," ","A","r","e"," ",
      "y","o","u"," ","s","u","r","e"," ","i","t"," ","e","x","i","s",
      "t","s","?">>

RequiredArgumentsMessage ==
    <<"R","e","q","u","i","r","e","d"," ","a","r","g","u","m","e","n",
      "t","s",":"," ","<","u","s","e","r","_","i","d",">"," ","<","s",
      "e","t","_","1",">"," ","<","s","e","t","_","2",">"," ",".",".",
      ".">>

OperationFailedMessage ==
    <<"O","p","e","r","a","t","i","o","n"," ","f","a","i","l","e","d">>

UserNotFoundMessage ==
    <<"u","s","e","r"," ","n","o","t"," ","f","o","u","n","d">>

ErrorKey == <<"e","r","r","o","r">>

\* String.prototype.includes
includes(s, sub) ==
    \E i \in 0..(Len(s) - Len(sub)) : SubSeq(s, i + 1, i + Len(sub)) = sub

\* the catch of the handler never lets the request go on
NeverFallsThrough(message) == FALSE

\* the catch of the handler: the request goes on to redisCommand
FallsThrough(message) == includes(message, <<"n","o","t"," ","f","o","u","n","d">>)

\* sets.map((set) => ({command: 'sismember', args: [set, user_id]}))
MembershipBatch(args) ==
    [j \in 1..(Len(args) - 2) |->
        [command |-> <<"s","i","s","m","e","m","b","e","r">>,
         args |-> <<args[j + 2], args[2]>>]]

RECURSIVE Members(_, _, _)
\* responses.result.forEach: the sets whose response is 1
Members(args, replies, n) ==
    IF n = 0
    THEN <<>>
    ELSE IF replies[n] = 1
    THEN Append(Members(args, replies, n - 1), StrItem(args[n + 2]))
    ELSE Members(args, replies, n - 1)

\* what the membership script returns once its pipeline has returned
MembershipResult(args, responses) ==
    IF responses.success
    THEN ListVal(Members(args, responses.result[2], Len(args) - 2))
    ELSE ListVal(<<>>)

\* no EVALSHA dispatch is in progress
NoDispatch == [stage |-> "none", bodyArray |-> <<>>, response |-> NoResponse]

\* the backend after start-up: no key is set, no connection has issued SELECT
\* `written` is history: what has been written through each database index
EmptyStore == [data |-> [d \in DBs |-> <<>>], sel |-> <<>>, written |-> [d \in DBs |-> <<>>]]

NoCall == [command |-> <<>>, dbNumber |-> <<>>, args |-> <<>>]

IdlePass ==
    [pc |-> "idle", di |-> 0, dbNumber |-> <<>>, poolEpoch |-> 0, oldPool |-> <<>>,
     oi |-> 0, client |-> NoClient, ui |-> 0, record |-> <<>>,
     stuck |-> {}, swept |-> {}, fresh |-> {}, pingFailed |-> FALSE]

IdleDestroy == [pc |-> "idle", di |-> 0, ci |-> 0]

Init ==
    /\ now = 0
    /\ ticks = 0
    /\ conns = <<>>
    /\ pools = <<>>
    /\ inUse = <<>>
    /\ epoch = 0
    /\ timerOn = TRUE
    /\ nextCleanup = CLEANUP_INTERVAL
    /\ crashed = FALSE
    /\ pc = [r \in Reqs |-> "idle"]
    /\ call = [r \in Reqs |-> NoCall]
    /\ client = [r \in Reqs |-> NoClient]
    /\ startTime = [r \in Reqs |-> 0]
    /\ wake = [r \in Reqs |-> 0]
    /\ result = [r \in Reqs |-> Pending]
    /\ initTasks = [r \in Reqs |-> 0]
    /\ initErr = [r \in Reqs |-> ""]
    /\ sent = [r \in Reqs |-> <<>>]
    /\ queued = [r \in Reqs |-> <<>>]
    /\ acquired = [r \in Reqs |-> 0]
    /\ released = [r \in Reqs |-> 0]
    /\ rp = [p \in Passes |-> IdlePass]
    /\ dz = IdleDestroy
    /\ backendReply = [r \in Reqs |-> NoResult]
    /\ ev = [r \in Reqs |-> NoDispatch]
    /\ store = EmptyStore

(***************************************************************************)
(* The pool.                                                               *)
(***************************************************************************)
Pool(d) == MapGet(pools, d).m

WithPool(d, m) == MapSet(pools, d, [MapGet(pools, d) EXCEPT !.m = m])

\* #findAvailableConnection(d): the first client of the pool that is not in
\* #inUse is deleted from the pool, set in #inUse and returned; the result
\* gives the client (or NoClient) and the two maps as the call leaves them.
\* (a variant that returns the client and leaves both maps as they were)
findAvailableConnectionNoBookkeeping(d) ==
    LET pool == Pool(d)
        free == {i \in 1..Len(pool) : ~MapHas(inUse, pool[i].k)}
    IN  IF free = {}
        THEN [client |-> NoClient, pools |-> pools, inUse |-> inUse]
        ELSE [client |-> pool[CHOOSE i \in free : \A j \in free : i <= j].k,
              pools |-> pools, inUse |-> inUse]

findAvailableConnection(d) ==
    LET pool == Pool(d)
        free == {i \in 1..Len(pool) : ~MapHas(inUse, pool[i].k)}
        c == pool[CHOOSE i \in free : \A j \in free : i <= j].k
    IN  IF free = {}
        THEN [client |-> NoClient, pools |-> pools, inUse |-> inUse]
        ELSE [client |-> c,
              pools |-> WithPool(d, MapDelete(pool, c)),
              inUse |-> MapSet(inUse, c, [dbNumber |-> d, timestamp |-> now])]

\* the loop condition of #waitForConnection
\* (a variant without the deadline)
WaitContinuesForever(start) == TRUE

WaitContinues(start) == now - start < ACQUIRE_TIMEOUT

\* live iterators of reaper passes over #inUse, after inUse.delete(c)
RpAfterInUseDelete(c) ==
    [p \in Passes |->
        IF rp[p].pc \in {"quit2", "create2"}
        THEN [rp[p] EXCEPT !.ui = IterAfterDelete(inUse, c, @)]
        ELSE rp[p]]

\* live iterator of destroy() over the pool of d, after pool.delete(c)
DzAfterPoolDelete(d, c) ==
    IF /\ dz.pc = "quitting"
       /\ dz.di >= 1 /\ dz.di <= Len(pools)
       /\ pools[dz.di].k = d
    THEN [dz EXCEPT !.ci = IterAfterDelete(Pool(d), c, @)]
    ELSE dz

\* releaseConnection(c, d): the two maps as the call leaves them
\* (a variant that puts the client back without #inUse.delete)
releaseConnectionKeepsInUse(c, d) ==
    IF MapHas(inUse, c)
    THEN [inUse |-> inUse,
          pools |-> WithPool(d, MapSet(Pool(d), c, now))]
    ELSE [inUse |-> inUse, pools |-> pools]

\* (a variant without the #inUse.has test)
releaseConnectionUnconditional(c, d) ==
    [inUse |-> MapDelete(inUse, c),
     pools |-> WithPool(d, MapSet(Pool(d), c, now))]

releaseConnection(c, d) ==
    IF MapHas(inUse, c)
    THEN [inUse |-> MapDelete(inUse, c),
          pools |-> WithPool(d, MapSet(Pool(d), c, now))]
    ELSE [inUse |-> inUse, pools |-> pools]

(***************************************************************************)
(* redisCommand and acquireConnection.  The operators below give the       *)
(* variables pools, inUse, dz, pc, client, startTime, wake, result and     *)
(* acquired; the actions that use them give the others.                    *)
(***************************************************************************)
\* redisCommand returns `res` without holding a connection.
Return(r, res) ==
    /\ pc' = [pc EXCEPT ![r] = "done"]
    /\ result' = [result EXCEPT ![r] = res]
    /\ startTime' = [startTime EXCEPT ![r] = 0]
    /\ wake' = [wake EXCEPT ![r] = 0]
    /\ UNCHANGED <<pools, inUse, dz, client, acquired>>

\* #findAvailableConnection returned the connection c
Take(r, d, found) ==
    /\ pools' = found.pools
    /\ inUse' = found.inUse
    /\ dz' = DzAfterPoolDelete(d, found.client)
    /\ pc' = [pc EXCEPT ![r] = "acquired"]
    /\ client' = [client EXCEPT ![r] = found.client]
    /\ acquired' = [acquired EXCEPT ![r] = @ + 1]
    /\ startTime' = [startTime EXCEPT ![r] = 0]
    /\ wake' = [wake EXCEPT ![r] = 0]
    /\ UNCHANGED result

\* acquireConnection after the pool check, and every round of #waitForConnection:
\* look for a connection; if there is none, sleep or time out.
FindOrWait(r, d, start) ==
    IF ~MapHas(pools, d)
    THEN Return(r, Failure("TypeError", NotIterableMessage))
    ELSE IF findAvailableConnection(d).client # NoClient
    THEN Take(r, d, findAvailableConnection(d))
    ELSE IF WaitContinues(start)
    THEN /\ pc' = [pc EXCEPT ![r] = "waiting"]
         /\ startTime' = [startTime EXCEPT ![r] = start]
         /\ wake' = [wake EXCEPT ![r] = now + POLL_INTERVAL]
         /\ UNCHANGED <<pools, inUse, dz, client, result, acquired>>
    ELSE Return(r, Failure("Error", TimeoutMessage(d)))

\* initialize(d) up to its await: register the pool, start POOL_SIZE connects.
Initialize(r, d) ==
    /\ pools' = MapSet(pools, d, [epoch |-> epoch, m |-> <<>>])
    /\ pc' = [pc EXCEPT ![r] = "init"]
    /\ initTasks' = [initTasks EXCEPT ![r] = POOL_SIZE]
    /\ initErr' = [initErr EXCEPT ![r] = ""]
    /\ UNCHANGED <<inUse, dz, client, startTime, wake, result, acquired>>

\* (a variant that also initializes when the pool of d is registered and empty)
AcquireConnectionInitializesEmpty(r, d) ==
    IF ~MapHas(pools, d) \/ Pool(d) = <<>>
    THEN Initialize(r, d)
    ELSE FindOrWait(r, d, now) /\ UNCHANGED <<initTasks, initErr>>

AcquireConnection(r, d) ==
    IF ~MapHas(pools, d)
    THEN Initialize(r, d)
    ELSE FindOrWait(r, d, now) /\ UNCHANGED <<initTasks, initErr>>

\* redisCommand(command, dbNumber, ...args) up to its first await
redisCommand(r, command, dbNumber, args) ==
    /\ call' = [call EXCEPT ![r] =
                   [command |-> command, dbNumber |-> dbNumber, args |-> args]]
    /\ IF IsPipeline(command)
       THEN AcquireConnection(r, dbNumber)
       ELSE IF IsBanned(command)
       THEN Return(r, Forbidden) /\ UNCHANGED <<initTasks, initErr>>
       ELSE AcquireConnection(r, dbNumber)
    /\ UNCHANGED <<clockVars, conns, epoch, timerVars, crashed, sent, queued,
                   released, rp>>

\* a request arrives and calls redisCommand
RedisCommand(r, command, dbNumber, args) ==
    /\ pc[r] = "idle"
    /\ \A q \in Reqs : q < r => pc[q] # "idle"
    /\ ~crashed
    /\ redisCommand(r, command, dbNumber, args)
    /\ UNCHANGED extVars

\* the handler: decode the path or body, then call handleEvalsha or redisCommand
HttpRequest(r, body) ==
    /\ pc[r] = "idle"
    /\ \A q \in Reqs : q < r => pc[q] # "idle"
    /\ ~crashed
    /\ LET bodyArray == BodyArray(body)
       IN  IF toLowerCase(bodyArray[2]) = Evalsha
           THEN /\ pc' = [pc EXCEPT ![r] = "import"]
                /\ ev' = [ev EXCEPT ![r] = [stage |-> "import", bodyArray |-> bodyArray,
                                            response |-> NoResponse]]
                /\ UNCHANGED <<clockVars, poolVars, timerVars, crashed, call, client,
                               startTime, wake, result, initTasks, initErr, sent,
                               queued, acquired, released, rp, dz, backendReply, store>>
           ELSE RedisCommand(r, bodyArray[2], bodyArray[1],
                             SubSeq(bodyArray, 3, Len(bodyArray)))

\* a script handler calls redisCommand('PIPELINE', dbNumber, pipeline)
ScriptPipeline(r, dbNumber, batch) ==
    RedisCommand(r, <<"P","I","P","E","L","I","N","E">>, dbNumber, <<batch>>)

\* one #addConnectionToPool of r's initialize: createConnection resolves
InitTaskOk(r) ==
    /\ initTasks[r] > 0
    /\ ~crashed
    /\ Len(conns) < MaxConns
    /\ conns' = Append(conns, [db |-> call[r].dbNumber, closed |-> FALSE])
    /\ initTasks' = [initTasks EXCEPT ![r] = @ - 1]
    /\ IF MapHas(pools, call[r].dbNumber)
       THEN /\ pools' = WithPool(call[r].dbNumber,
                                 MapSet(Pool(call[r].dbNumber), Len(conns) + 1, now))
            /\ UNCHANGED initErr
       ELSE /\ initErr' = [initErr EXCEPT ![r] = IF @ = "" THEN "TypeError" ELSE @]
            /\ UNCHANGED pools
    /\ UNCHANGED <<clockVars, extVars, inUse, epoch, timerVars, crashed, pc, call, client,
                   startTime, wake, result, sent, queued, acquired, released, rp, dz>>

\* one #addConnectionToPool of r's initialize: createConnection rejects
InitTaskFail(r) ==
    /\ initTasks[r] > 0
    /\ ~crashed
    /\ initTasks' = [initTasks EXCEPT ![r] = @ - 1]
    /\ initErr' = [initErr EXCEPT ![r] = IF @ = "" THEN "Error" ELSE @]
    /\ UNCHANGED <<clockVars, extVars, poolVars, timerVars, crashed, pc, call, client,
                   startTime, wake, result, sent, queued, acquired, released, rp, dz>>

\* `await this.initialize(dbNumber)` resumes
InitResume(r) ==
    /\ pc[r] = "init"
    /\ ~crashed
    /\ initErr[r] # "" \/ initTasks[r] = 0
    /\ IF initErr[r] # ""
       THEN Return(r, Failure(initErr[r],
                IF initErr[r] = "Error" THEN ConnectErrorMessage ELSE NoSetMessage))
       ELSE FindOrWait(r, call[r].dbNumber, now)
    /\ UNCHANGED <<clockVars, extVars, conns, epoch, timerVars, crashed, call, initTasks,
                   initErr, sent, queued, released, rp>>

\* the setTimeout of #waitForConnection fires
Poll(r) ==
    /\ pc[r] = "waiting"
    /\ ~crashed
    /\ now >= wake[r]
    /\ FindOrWait(r, call[r].dbNumber, startTime[r])
    /\ UNCHANGED <<clockVars, extVars, conns, epoch, timerVars, crashed, call, initTasks,
                   initErr, sent, queued, released, rp>>

\* the `finally` of redisCommand / handlePipelineCommand, returning `res`
ReleaseAndReturn(r, res) ==
    /\ inUse' = releaseConnection(client[r], call[r].dbNumber).inUse
    /\ pools' = releaseConnection(client[r], call[r].dbNumber).pools
    /\ rp' = IF MapHas(inUse, client[r])
             THEN [p \in Passes |->
                      [RpAfterInUseDelete(client[r])[p] EXCEPT !.stuck = @ \ {client[r]}]]
             ELSE rp
    /\ released' = [released EXCEPT ![r] = @ + 1]
    /\ client' = [client EXCEPT ![r] = NoClient]
    /\ pc' = [pc EXCEPT ![r] = "done"]
    /\ result' = [result EXCEPT ![r] = res]

\* methods of the pipeline object of the client library
PipelineMethods ==
    { <<"h","s","e","t">>, <<"e","x","p","i","r","e">>,
      <<"s","i","s","m","e","m","b","e","r">>,
      <<"f","l","u","s","h","d","b">>, <<"f","l","u","s","h","a","l","l">> }

\* index of the first command of the batch that makes the loop throw, or 0
\* (a variant without the denylist test)
FirstThrowUnchecked(batch) ==
    LET bad == {i \in 1..Len(batch) :
                   toLowerCase(batch[i].command) \notin PipelineMethods}
    IN  IF bad = {} THEN 0 ELSE CHOOSE i \in bad : \A j \in bad : i <= j

FirstThrow(batch) ==
    LET bad == {i \in 1..Len(batch) :
                   \/ IsBanned(batch[i].command)
                   \/ toLowerCase(batch[i].command) \notin PipelineMethods}
    IN  IF bad = {} THEN 0 ELSE CHOOSE i \in bad : \A j \in bad : i <= j

\* the request continues after `await acquireConnection`
Run(r) ==
    /\ pc[r] = "acquired"
    /\ ~crashed
    /\ IF ~IsPipeline(call[r].command)
       THEN /\ sent' = [sent EXCEPT ![r] = Append(@, call[r].command)]
            /\ pc' = [pc EXCEPT ![r] = "sending"]
            /\ UNCHANGED <<queued, inUse, pools, rp, released, result, client>>
       ELSE LET batch == call[r].args[1]
                i == FirstThrow(batch)
            IN  IF i = 0
                THEN /\ queued' = [queued EXCEPT ![r] = [j \in 1..Len(batch) |-> batch[j].command]]
                     /\ sent' = [sent EXCEPT ![r] = [j \in 1..Len(batch) |-> batch[j].command]]
                     /\ pc' = [pc EXCEPT ![r] = "flushing"]
                     /\ UNCHANGED <<inUse, pools, rp, released, result, client>>
                ELSE /\ queued' = [queued EXCEPT ![r] = [j \in 1..(i - 1) |-> batch[j].command]]
                     /\ UNCHANGED sent
                     /\ ReleaseAndReturn(r,
                            IF IsBanned(batch[i].command)
                            THEN Failure("Error", PipelineDeniedMessage(batch[i].command))
                            ELSE Failure("TypeError", NotAFunctionMessage))
    /\ UNCHANGED <<clockVars, extVars, conns, epoch, timerVars, crashed, call,
                   startTime, wake, initTasks, initErr, acquired, dz>>

\* client.sendCommand resolves with `reply`
Reply(r, reply) ==
    /\ pc[r] = "sending"
    /\ ~crashed
    /\ ReleaseAndReturn(r, Success(reply))
    /\ backendReply' = [backendReply EXCEPT ![r] = reply]
    /\ UNCHANGED <<clockVars, ev, store, conns, epoch, timerVars, crashed, call,
                   startTime, wake, initTasks, initErr, sent, queued, acquired, dz>>

\* client.sendCommand rejects
ReplyError(r) ==
    /\ pc[r] = "sending"
    /\ ~crashed
    /\ ReleaseAndReturn(r, Failure("Error", BackendErrorMessage))
    /\ UNCHANGED <<clockVars, extVars, conns, epoch, timerVars, crashed, call,
                   startTime, wake, initTasks, initErr, sent, queued, acquired, dz>>

\* pl.flush() resolves with the replies of the batch
FlushReply(r) ==
    /\ pc[r] = "flushing"
    /\ ~crashed
    /\ ReleaseAndReturn(r, PipelineSuccess(ListVal([j \in 1..Len(sent[r]) |-> 1])))
    /\ backendReply' = [backendReply EXCEPT ![r] = ListVal([j \in 1..Len(sent[r]) |-> 1])]
    /\ UNCHANGED <<clockVars, ev, store, conns, epoch, timerVars, crashed, call,
                   startTime, wake, initTasks, initErr, sent, queued, acquired, dz>>

\* pl.flush() rejects
FlushError(r) ==
    /\ pc[r] = "flushing"
    /\ ~crashed
    /\ ReleaseAndReturn(r, Failure("Error", BackendErrorMessage))
    /\ UNCHANGED <<clockVars, extVars, conns, epoch, timerVars, crashed, call,
                   startTime, wake, initTasks, initErr, sent, queued, acquired, dz>>

\* time passes: by POLL_INTERVAL while a setTimeout of #waitForConnection is
\* pending, or by MAX_IDLE_TIME
Tick(dt) ==
    /\ ticks < MaxTicks
    /\ ~crashed
    /\ dt = POLL_INTERVAL => \E r \in Reqs : pc[r] = "waiting" /\ now < wake[r]
    /\ now' = now + dt
    /\ ticks' = ticks + 1
    /\ UNCHANGED <<extVars, poolVars, timerVars, crashed, reqVars, rp, dz>>


\* every pending setTimeout of #waitForConnection becomes due: the clock moves
\* on by ACQUIRE_TIMEOUT.  A waiter polls at most once more after that, so
\* NumReqs such steps are all that can ever be taken.
Elapse ==
    /\ ticks < MaxTicks + NumReqs
    /\ ~crashed
    /\ \E r \in Reqs : pc[r] = "waiting" /\ now < wake[r]
    /\ now' = now + ACQUIRE_TIMEOUT
    /\ ticks' = ticks + 1
    /\ UNCHANGED <<extVars, poolVars, timerVars, crashed, reqVars, rp, dz>>

(***************************************************************************)
(* The reaper: #cleanupStaleConnections.                                   *)
(***************************************************************************)
Quit(cs, c) == [cs EXCEPT ![c].closed = TRUE]

\* the negation of the `continue` test of the idle sweep
IsStale(lastUsed) == ~(now - lastUsed < MAX_IDLE_TIME)

\* the test of the stuck sweep
IsStuck(record) == now - record.timestamp > ACQUIRE_TIMEOUT

\* The stuck sweep from iterator position s.ui, up to its next await.
RECURSIVE Sweep(_)
Sweep(s) ==
    IF s.ui < Len(inUse)
    THEN IF IsStuck(inUse[s.ui + 1].v)
         THEN [s EXCEPT !.pc = "quit2", !.client = inUse[s.ui + 1].k,
                        !.record = inUse[s.ui + 1].v]
         ELSE Sweep([s EXCEPT !.ui = @ + 1])
    ELSE [s EXCEPT !.pc = "done", !.ui = 0, !.client = NoClient, !.record = <<>>]

\* The idle sweep from iterator positions (s.di, s.oi) over the map ps, up to
\* its next await; when the loops end, the stuck sweep begins.
RECURSIVE Scan(_, _)
Scan(s, ps) ==
    IF s.oi < Len(s.oldPool)
    THEN IF IsStale(s.oldPool[s.oi + 1].v)
         THEN [s EXCEPT !.pc = "ping", !.oi = @ + 1, !.client = s.oldPool[s.oi + 1].k]
         ELSE Scan([s EXCEPT !.oi = @ + 1], ps)
    ELSE IF s.di < Len(ps)
    THEN Scan([s EXCEPT !.di = @ + 1, !.dbNumber = ps[s.di + 1].k,
                        !.poolEpoch = ps[s.di + 1].v.epoch,
                        !.oldPool = ps[s.di + 1].v.m, !.oi = 0], ps)
    ELSE Sweep([s EXCEPT !.di = 0, !.dbNumber = <<>>, !.poolEpoch = 0,
                         !.oldPool = <<>>, !.oi = 0, !.client = NoClient, !.ui = 0])

\* Pass p has run to its next await and is in state s, cs being the connections
\* opened so far: when that await is the client.quit() of the stuck sweep, the
\* connection has left #inUse and quit() has been called on it.
PassRuns(p, s, cs) ==
    /\ rp' = IF s.pc = "quit2"
             THEN [RpAfterInUseDelete(s.client) EXCEPT
                      ![p] = [s EXCEPT !.swept = @ \cup {s.client}]]
             ELSE [rp EXCEPT ![p] = s]
    /\ inUse' = IF s.pc = "quit2" THEN MapDelete(inUse, s.client) ELSE inUse
    /\ conns' = IF s.pc = "quit2" THEN Quit(cs, s.client) ELSE cs

\* the connections that have been checked out for longer than ACQUIRE_TIMEOUT
StuckNow == {inUse[i].k : i \in {j \in 1..Len(inUse) : IsStuck(inUse[j].v)}}

\* the interval timer fires: a pass begins; it remembers (stuck, swept, fresh,
\* pingFailed) what was stuck when it began and has not been released since,
\* what its stuck sweep removed and added, and whether a ping failed
CleanupStart(p) ==
    /\ rp[p].pc \in {"idle", "done"}
    /\ ~crashed
    /\ timerOn
    /\ now >= nextCleanup
    /\ nextCleanup' = now + CLEANUP_INTERVAL
    /\ PassRuns(p, Scan([IdlePass EXCEPT !.stuck = StuckNow], pools), conns)
    /\ UNCHANGED <<clockVars, extVars, pools, epoch, timerOn, crashed, reqVars, dz>>

\* client.ping() resolves
PingOk(p) ==
    /\ rp[p].pc = "ping"
    /\ ~crashed
    /\ PassRuns(p, Scan(rp[p], pools), conns)
    /\ UNCHANGED <<clockVars, extVars, pools, epoch, timerVars, crashed, reqVars, dz>>

\* `pool` of the pass is still the Map registered for its dbNumber
PoolIsCurrent(s) ==
    /\ MapHas(pools, s.dbNumber)
    /\ MapGet(pools, s.dbNumber).epoch = s.poolEpoch

\* client.ping() rejects: pool.delete(client); client.quit()
PingFail(p) ==
    /\ rp[p].pc = "ping"
    /\ ~crashed
    /\ IF PoolIsCurrent(rp[p])
       THEN /\ pools' = WithPool(rp[p].dbNumber, MapDelete(Pool(rp[p].dbNumber), rp[p].client))
            /\ dz' = DzAfterPoolDelete(rp[p].dbNumber, rp[p].client)
       ELSE UNCHANGED <<pools, dz>>
    /\ conns' = Quit(conns, rp[p].client)
    /\ rp' = [rp EXCEPT ![p].pc = "quit1", ![p].pingFailed = TRUE]
    /\ UNCHANGED <<clockVars, extVars, inUse, epoch, timerVars, crashed, reqVars>>

\* client.quit() settles (either way): #addConnectionToPool is called
QuitDone(p) ==
    /\ rp[p].pc \in {"quit1", "quit2"}
    /\ ~crashed
    /\ rp' = [rp EXCEPT ![p].pc = IF @ = "quit1" THEN "create1" ELSE "create2"]
    /\ UNCHANGED <<clockVars, extVars, poolVars, timerVars, crashed, reqVars, dz>>

\* database of the replacement connection
ReplacementDb(s) == IF s.pc = "create1" THEN s.dbNumber ELSE s.record.dbNumber

\* createConnection resolves in the idle sweep
CreateOk1(p) ==
    /\ rp[p].pc = "create1"
    /\ ~crashed
    /\ Len(conns) < MaxConns
    /\ IF MapHas(pools, ReplacementDb(rp[p]))
       THEN /\ pools' = WithPool(ReplacementDb(rp[p]),
                                 MapSet(Pool(ReplacementDb(rp[p])), Len(conns) + 1, now))
            /\ PassRuns(p, Scan(rp[p], pools),
                        Append(conns, [db |-> ReplacementDb(rp[p]), closed |-> FALSE]))
            /\ UNCHANGED crashed
       ELSE /\ conns' = Append(conns, [db |-> ReplacementDb(rp[p]), closed |-> FALSE])
            /\ rp' = [rp EXCEPT ![p].pc = "failed"]
            /\ crashed' = TRUE
            /\ UNCHANGED <<pools, inUse>>
    /\ UNCHANGED <<clockVars, extVars, epoch, timerVars, reqVars, dz>>

\* createConnection resolves in the stuck sweep
CreateOk2(p) ==
    /\ rp[p].pc = "create2"
    /\ ~crashed
    /\ Len(conns) < MaxConns
    /\ IF MapHas(pools, ReplacementDb(rp[p]))
       THEN /\ pools' = WithPool(ReplacementDb(rp[p]),
                                 MapSet(Pool(ReplacementDb(rp[p])), Len(conns) + 1, now))
            /\ PassRuns(p, Sweep([rp[p] EXCEPT !.fresh = @ \cup {Len(conns) + 1}]),
                        Append(conns, [db |-> ReplacementDb(rp[p]), closed |-> FALSE]))
            /\ UNCHANGED crashed
       ELSE /\ conns' = Append(conns, [db |-> ReplacementDb(rp[p]), closed |-> FALSE])
            /\ rp' = [rp EXCEPT ![p].pc = "failed"]
            /\ crashed' = TRUE
            /\ UNCHANGED <<pools, inUse>>
    /\ UNCHANGED <<clockVars, extVars, epoch, timerVars, reqVars, dz>>

\* createConnection rejects: the rejection leaves #cleanupStaleConnections
CreateFail(p) ==
    /\ rp[p].pc \in {"create1", "create2"}
    /\ ~crashed
    /\ rp' = [rp EXCEPT ![p].pc = "failed"]
    /\ crashed' = TRUE
    /\ UNCHANGED <<clockVars, extVars, poolVars, timerVars, reqVars, dz>>


(***************************************************************************)
(* destroy().                                                              *)
(***************************************************************************)
\* The loops of destroy() from iterator positions (s.di, s.ci) over the map ps,
\* up to the next client.quit(), or to their end.
RECURSIVE DestroyScan(_, _)
DestroyScan(s, ps) ==
    IF s.di >= 1 /\ s.di <= Len(ps) /\ s.ci < Len(ps[s.di].v.m)
    THEN [s EXCEPT !.pc = "quitting", !.ci = @ + 1]
    ELSE IF s.di < Len(ps)
    THEN DestroyScan([s EXCEPT !.di = @ + 1, !.ci = 0], ps)
    ELSE [pc |-> "done", di |-> 0, ci |-> 0]

\* destroy() has run to its next await, or to its end, and is in state s
DestroyRuns(s) ==
    /\ dz' = s
    /\ IF s.pc = "quitting"
       THEN /\ conns' = Quit(conns, pools[s.di].v.m[s.ci].k)
            /\ UNCHANGED <<pools, inUse, epoch, rp>>
       ELSE /\ pools' = <<>>
            /\ inUse' = <<>>
            /\ epoch' = epoch + 1
            /\ rp' = [p \in Passes |-> [rp[p] EXCEPT !.di = 0, !.ui = 0]]
            /\ UNCHANGED conns

DestroyStart ==
    /\ dz.pc = "idle"
    /\ ~crashed
    /\ timerOn' = FALSE
    /\ DestroyRuns(DestroyScan(dz, pools))
    /\ UNCHANGED <<clockVars, extVars, nextCleanup, crashed, reqVars>>

\* client.quit() of destroy() settles (either way)
DestroyQuitDone ==
    /\ dz.pc = "quitting"
    /\ ~crashed
    /\ DestroyRuns(DestroyScan(dz, pools))
    /\ UNCHANGED <<clockVars, extVars, timerVars, crashed, reqVars>>

(***************************************************************************)
(* The backend behind the connections: one key space per database, and on *)
(* each connection the database its commands apply to.                     *)
(***************************************************************************)
BulkVal(chars) == <<"bulk", chars>>
NilVal == <<"nil">>

\* the database the commands of connection c apply to: the one of
\* connect({db: dbNumber}) in createConnection, until the connection sends SELECT
Selected(c) == IF MapHas(store.sel, c) THEN MapGet(store.sel, c) ELSE conns[c].db

\* the backend runs r's command on r's connection and client.sendCommand resolves
Execute(r) ==
    /\ pc[r] = "sending"
    /\ ~crashed
    /\ LET c == client[r]
           db == Selected(c)
           name == toLowerCase(call[r].command)
           args == call[r].args
       IN  IF name = <<"s","e","t">> /\ Len(args) = 2
           THEN /\ store' = [store EXCEPT
                               !.data[db] = MapSet(@, args[1], args[2]),
                               !.written[call[r].dbNumber] = MapSet(@, args[1], args[2])]
                /\ backendReply' = [backendReply EXCEPT ![r] = StrVal("OK")]
                /\ ReleaseAndReturn(r, Success(StrVal("OK")))
           ELSE IF name = <<"g","e","t">> /\ Len(args) = 1
           THEN LET reply == IF MapHas(store.data[db], args[1])
                             THEN BulkVal(MapGet(store.data[db], args[1]))
                             ELSE NilVal
                IN  /\ backendReply' = [backendReply EXCEPT ![r] = reply]
                    /\ ReleaseAndReturn(r, Success(reply))
                    /\ UNCHANGED store
           ELSE IF name = <<"s","e","l","e","c","t">> /\ Len(args) = 1 /\ args[1] \in DBs
           THEN /\ store' = [store EXCEPT !.sel = MapSet(@, c, args[1])]
                /\ backendReply' = [backendReply EXCEPT ![r] = StrVal("OK")]
                /\ ReleaseAndReturn(r, Success(StrVal("OK")))
           ELSE /\ ReleaseAndReturn(r, Failure("Error", BackendErrorMessage))
                /\ UNCHANGED <<backendReply, store>>
    /\ UNCHANGED <<clockVars, ev, conns, epoch, timerVars, crashed, call,
                   startTime, wake, initTasks, initErr, sent, queued, acquired, dz>>

(***************************************************************************)
(* The EVALSHA branch of the handler.                                      *)
(***************************************************************************)
scriptHash(r) == ev[r].bodyArray[3]

scriptArgs(r) == SubSeq(ev[r].bodyArray, 4, Len(ev[r].bodyArray))

\* the handler returns `response` without calling redisCommand itself
Respond(r, response) ==
    /\ pc' = [pc EXCEPT ![r] = "responded"]
    /\ ev' = [ev EXCEPT ![r].stage = "local", ![r].response = response]
    /\ UNCHANGED <<clockVars, poolVars, timerVars, crashed, call, client,
                   startTime, wake, result, initTasks, initErr, sent, queued,
                   acquired, released, rp, dz, backendReply, store>>

\* handleEvalsha has thrown `message`: the catch of the handler
Caught(r, message) ==
    IF FallsThrough(message)
    THEN /\ ev' = [ev EXCEPT ![r].stage = "native"]
         /\ redisCommand(r, ev[r].bodyArray[2], ev[r].bodyArray[1],
                         SubSeq(ev[r].bodyArray, 3, Len(ev[r].bodyArray)))
         /\ UNCHANGED <<backendReply, store>>
    ELSE Respond(r, Response(400, ErrorKey, message))

\* import(`./scripts/${scriptHash}.js`) rejects with ERR_MODULE_NOT_FOUND
ImportFail(r) ==
    /\ pc[r] = "import"
    /\ ~crashed
    /\ scriptHash(r) \notin Scripts
    /\ Caught(r, ScriptNotFoundMessage(scriptHash(r)))

\* the import resolves and invoke(dbNumber, args) runs up to its first await
ImportOk(r) ==
    /\ pc[r] = "import"
    /\ ~crashed
    /\ scriptHash(r) \in Scripts
    /\ IF scriptHash(r) = MembershipScript
       THEN IF Len(scriptArgs(r)) < 2
            THEN Caught(r, RequiredArgumentsMessage)
            ELSE /\ ev' = [ev EXCEPT ![r].stage = "script"]
                 /\ redisCommand(r, <<"P","I","P","E","L","I","N","E">>, ev[r].bodyArray[1],
                                 <<MembershipBatch(scriptArgs(r))>>)
                 /\ UNCHANGED <<backendReply, store>>
       ELSE /\ pc' = [pc EXCEPT ![r] = "invoke"]
            /\ ev' = [ev EXCEPT ![r].stage = "invoke"]
            /\ UNCHANGED <<clockVars, poolVars, timerVars, crashed, call, client,
                           startTime, wake, result, initTasks, initErr, sent, queued,
                           acquired, released, rp, dz, backendReply, store>>

\* the pipeline of the script has returned: invoke returns its value
ScriptResume(r) ==
    /\ pc[r] = "done"
    /\ ev[r].stage = "script"
    /\ ~crashed
    /\ Respond(r, Response(200, ev[r].bodyArray[2],
                           MembershipResult(scriptArgs(r), result[r])))

\* invoke of the operator's script resolves with `value`
InvokeReturn(r, value) ==
    /\ pc[r] = "invoke"
    /\ ~crashed
    /\ Respond(r, Response(200, ev[r].bodyArray[2], value))

\* invoke of the operator's script rejects with new Error(message)
InvokeThrow(r, message) ==
    /\ pc[r] = "invoke"
    /\ ~crashed
    /\ Caught(r, message)

\* the response of the handler to request r, once it has returned
HttpResponse(r) ==
    IF ev[r].stage = "local"
    THEN ev[r].response
    ELSE IF pc[r] = "done" /\ ev[r].stage \in {"none", "native"}
    THEN webdisResponse(IF ev[r].stage = "native" THEN ev[r].bodyArray[2]
                        ELSE call[r].command,
                        result[r])
    ELSE NoResponse

(***************************************************************************)
(* Inputs and specifications.                                              *)
(***************************************************************************)
Replies == {StrVal("OK"), StrVal("world")}

Cmd(command) == [command |-> command, args |-> <<>>]

\* GET/k
PoolBodies ==
    { <<"G","E","T","/","k">> }

\* requests of the gateway: plain commands, with and without a database
\* prefix, denylisted names in several spellings, multi-word verbs
GatewayBodies ==
    { <<"G","E","T","/","k">>,
      <<"1","/","G","E","T","/","k","/">>,
      <<"F","L","U","S","H","D","B">>,
      <<"F","l","u","s","h","A","l","l">>,
      <<"c","o","n","f","i","g","/","G","E","T","/","k">>,
      <<"S","C","R","I","P","T","/","L","O","A","D","/","k">>,
      <<"M","E","M","O","R","Y","/","U","S","A","G","E","/","k">>,
      <<"M","O","D","U","L","E","/","L","I","S","T">> }

\* batches of the script handlers: one without denylisted command, and the
\* denylisted command first, in the middle, last
GatewayBatches ==
    { << Cmd(<<"h","s","e","t">>), Cmd(<<"e","x","p","i","r","e">>) >>,
      << Cmd(<<"F","l","u","s","h","D","b">>), Cmd(<<"h","s","e","t">>) >>,
      << Cmd(<<"h","s","e","t">>), Cmd(<<"F","L","U","S","H","A","L","L">>),
         Cmd(<<"e","x","p","i","r","e">>) >>,
      << Cmd(<<"h","s","e","t">>), Cmd(<<"f","l","u","s","h","d","b">>) >> }

\* what a request does once redisCommand has been called
Progress(r) ==
    \/ InitTaskOk(r)
    \/ InitTaskFail(r)
    \/ InitResume(r)
    \/ Poll(r)
    \/ Run(r)
    \/ \E reply \in Replies : Reply(r, reply)
    \/ ReplyError(r)

Flush(r) ==
    \/ FlushReply(r)
    \/ FlushError(r)

RequestNext ==
    \/ \E r \in Reqs, body \in PoolBodies : HttpRequest(r, body)
    \/ \E r \in Reqs : Progress(r)
    \/ \E dt \in TickSteps : Tick(dt)

ReaperNext ==
    \/ \E p \in Passes : CleanupStart(p)
    \/ \E p \in Passes : PingOk(p)
    \/ \E p \in Passes : PingFail(p)
    \/ \E p \in Passes : QuitDone(p)
    \/ \E p \in Passes : CreateOk1(p)
    \/ \E p \in Passes : CreateOk2(p)
    \/ \E p \in Passes : CreateFail(p)

Next == RequestNext \/ ReaperNext

\* the pool under concurrent requests and reaper passes
Spec == Init /\ [][Next]_vars

NextLive == RequestNext \/ Elapse

Fairness ==
    /\ WF_vars(Elapse)
    /\ \A r \in Reqs : WF_vars(Poll(r))

\* the requests with the timers of the event loop firing
SpecLive == Init /\ [][NextLive]_vars /\ Fairness

DestroyReqs == 1..NumDestroyReqs

DestroyNext ==
    \/ DestroyStart
    \/ DestroyQuitDone

NextDestroy ==
    \/ \E r \in DestroyReqs, body \in PoolBodies : HttpRequest(r, body)
    \/ \E r \in DestroyReqs : Progress(r)
    \/ \E dt \in TickSteps : Tick(dt)
    \/ ReaperNext
    \/ DestroyNext

\* the pool with destroy() called at some point
SpecDestroy == Init /\ [][NextDestroy]_vars

GatewayReqs == 1..NumGatewayReqs

NextGateway ==
    \/ \E r \in GatewayReqs, body \in GatewayBodies : HttpRequest(r, body)
    \/ \E r \in GatewayReqs, batch \in GatewayBatches : ScriptPipeline(r, <<"0">>, batch)
    \/ \E r \in GatewayReqs : Progress(r)
    \/ \E r \in GatewayReqs : Flush(r)
    \/ \E dt \in TickSteps : Tick(dt)

\* the gateway: every kind of request, over the pool
SpecGateway == Init /\ [][NextGateway]_vars

HttpReqs == 1..NumHttpReqs

\* replies of the backend: an acknowledgement, a string, lists of strings
HttpReplies ==
    { StrVal("OK"),
      StrVal("world"),
      ListVal(<<StrItem(<<"v","a","l","u","e","1">>), StrItem(<<"v","a","l","u","e","2">>)>>),
      ListVal(<<StrItem(<<"v","a","l","u","e","1">>)>>),
      ListVal(<<StrItem(<<"1">>), StrItem(<<"2">>)>>) }

\* LRANGE/mylist/0/-1, HMGET/h/a/b, SET/k/v, UNKNOWN/COMMAND, and EVALSHA with
\* the two scripts of ./scripts and with an identifier that is no script
HttpBodies ==
    { <<"L","R","A","N","G","E","/","m","y","l","i","s","t","/","0","/","-","1">>,
      <<"H","M","G","E","T","/","h","/","a","/","b">>,
      <<"S","E","T","/","k","/","v">>,
      <<"U","N","K","N","O","W","N","/","C","O","M","M","A","N","D">>,
      <<"E","V","A","L","S","H","A","/">> \o MembershipScript \o <<"/","1","/","u","/","s">>,
      <<"E","V","A","L","S","H","A","/">> \o MembershipScript,
      <<"1","/","e","v","a","l","s","h","a","/">> \o MyTestScript \o <<"/","1","/","a">>,
      <<"E","V","A","L","S","H","A","/","i","n","v","a","l","i","d","s","h","a","1","2","3","/","1","/","t","e","s","t","k","e","y","/","t","e","s","t","a","r","g">> }

\* what the operator's script returns
ScriptValues == { StrVal("OK"), EmptyObject }

\* what the operator's script throws
ScriptMessages == { OperationFailedMessage, UserNotFoundMessage }

NextHttp ==
    \/ \E r \in HttpReqs, body \in HttpBodies : HttpRequest(r, body)
    \/ \E r \in HttpReqs : InitTaskOk(r)
    \/ \E r \in HttpReqs : InitTaskFail(r)
    \/ \E r \in HttpReqs : InitResume(r)
    \/ \E r \in HttpReqs : Poll(r)
    \/ \E r \in HttpReqs : Run(r)
    \/ \E r \in HttpReqs, reply \in HttpReplies : Reply(r, reply)
    \/ \E r \in HttpReqs : ReplyError(r)
    \/ \E r \in HttpReqs : Flush(r)
    \/ \E r \in HttpReqs : ImportFail(r)
    \/ \E r \in HttpReqs : ImportOk(r)
    \/ \E r \in HttpReqs : ScriptResume(r)
    \/ \E r \in HttpReqs, value \in ScriptValues : InvokeReturn(r, value)
    \/ \E r \in HttpReqs, message \in ScriptMessages : InvokeThrow(r, message)
    \/ \E dt \in TickSteps : Tick(dt)

\* the handler: plain commands and EVALSHA, over the pool
SpecHttp == Init /\ [][NextHttp]_vars

IsolationReqs == 1..NumIsolationReqs

\* SET/k/v, GET/k, 1/GET/k, SELECT/1
IsolationBodies ==
    { <<"S","E","T","/","k","/","v">>,
      <<"G","E","T","/","k">>,
      <<"1","/","G","E","T","/","k">>,
      <<"S","E","L","E","C","T","/","1">> }

NextIsolation ==
    \/ \E r \in IsolationReqs, body \in IsolationBodies : HttpRequest(r, body)
    \/ \E r \in IsolationReqs : InitTaskOk(r)
    \/ \E r \in IsolationReqs : InitTaskFail(r)
    \/ \E r \in IsolationReqs : InitResume(r)
    \/ \E r \in IsolationReqs : Poll(r)
    \/ \E r \in IsolationReqs : Run(r)
    \/ \E r \in IsolationReqs : Execute(r)
    \/ \E dt \in TickSteps : Tick(dt)

\* requests on two databases over the pools and a backend that keeps the data
SpecIsolation == Init /\ [][NextIsolation]_vars

ShapeReqs == 1..NumShapeReqs

\* elements of a list reply: a word, a numeral, an integer
ShapeItems == { StrItem(<<"b">>), StrItem(<<"1">>), IntItem(2) }

\* every list reply of at most MaxItems elements
ShapeReplies == { ListVal(items) : items \in UNION { [1..n -> ShapeItems] : n \in 0..MaxItems } }

\* HMGET/h/a/b, hmget/h/a/b, HGETALL/h
ShapeBodies ==
    { <<"H","M","G","E","T","/","h","/","a","/","b">>,
      <<"h","m","g","e","t","/","h","/","a","/","b">>,
      <<"H","G","E","T","A","L","L","/","h">> }

NextShape ==
    \/ \E r \in ShapeReqs, body \in ShapeBodies : HttpRequest(r, body)
    \/ \E r \in ShapeReqs : InitTaskOk(r)
    \/ \E r \in ShapeReqs : InitTaskFail(r)
    \/ \E r \in ShapeReqs : InitResume(r)
    \/ \E r \in ShapeReqs : Run(r)
    \/ \E r \in ShapeReqs, reply \in ShapeReplies : Reply(r, reply)

\* the handler's reply shape over every short list reply
SpecShape == Init /\ [][NextShape]_vars

(***************************************************************************)
(* Claims.                                                                 *)
(***************************************************************************)
IdleSet(d) == IF MapHas(pools, d) THEN MapKeys(Pool(d)) ELSE {}

CheckedOut(d) == {inUse[i].k : i \in {j \in 1..Len(inUse) : inUse[j].v.dbNumber = d}}

\* C1: for every database index d, in every reachable state, the number of
\* connections in the idle set of d plus the number of checked-out connections
\* tagged d is at most POOL_SIZE.
C1_CapacityBound ==
    \A d \in DBs : Cardinality(IdleSet(d)) + Cardinality(CheckedOut(d)) <= POOL_SIZE


Holds(r) == client[r] # NoClient

\* C2: at no instant do two in-flight requests hold the same connection.
C2_NoDuplicateHandOut ==
    \A r1 \in Reqs, r2 \in Reqs :
        (r1 # r2 /\ Holds(r1) /\ Holds(r2)) => client[r1] # client[r2]

\* more requests than POOL_SIZE are outstanding: POOL_SIZE of them hold a
\* connection and another one waits
C2_Witness ==
    /\ Cardinality({r \in Reqs : Holds(r)}) = POOL_SIZE
    /\ \E r \in Reqs : pc[r] = "waiting"

Open == {c \in 1..Len(conns) : ~conns[c].closed}

InIdle(c) == \E d \in DBs : c \in IdleSet(d)

InCheckedOut(c) == MapHas(inUse, c)

\* C3: every connection the pool has created and not closed is in exactly one
\* of the idle set and the checked-out set.
C3_ExactlyOneSet ==
    \A c \in Open : (InIdle(c) /\ ~InCheckedOut(c)) \/ (~InIdle(c) /\ InCheckedOut(c))

TimedOut(r) ==
    /\ pc[r] = "done"
    /\ result[r] = [success |-> FALSE,
                    error |-> <<"Timeout acquiring Redis connection for database ">>
                                 \o call[r].dbNumber,
                    status |-> 400, result |-> EmptyObject]

\* C4: a call that waits for a connection stops waiting: it obtains a
\* connection, or it fails with 'Timeout acquiring Redis connection for
\* database <d>'; and while it waits, its pending
\* timer is due before ACQUIRE_TIMEOUT + POLL_INTERVAL have passed since the
\* wait began.
C4_BoundedWaiting ==
    /\ \A r \in Reqs :
          (pc[r] = "waiting") ~> (pc[r] = "acquired" \/ TimedOut(r))
    /\ [](\A r \in Reqs :
          pc[r] = "waiting" => wake[r] < startTime[r] + ACQUIRE_TIMEOUT + POLL_INTERVAL)

\* a call has waited and failed with the timeout error
C4_Witness ==
    \E r \in Reqs : TimedOut(r) /\ acquired[r] = 0

\* the bound of Elapse never keeps a pending timer from becoming due
ElapseIsFree ==
    (\E r \in Reqs : pc[r] = "waiting" /\ now < wake[r]) => ticks < MaxTicks + NumReqs

Holding == {"acquired", "sending", "flushing"}

\* C5: when redisCommand returns after it has acquired a connection, that
\* connection is not in the checked-out set and releaseConnection has been
\* called once for the one acquisition.
C5_GuaranteedRelease ==
    [][\A r \in Reqs :
          (pc[r] \in Holding /\ pc'[r] = "done")
              => /\ ~MapHas(inUse', client[r])
                 /\ acquired'[r] = 1
                 /\ released'[r] = 1]_vars

\* the three exits: a reply, a backend error, a denied command of a pipeline
C5_Witness ==
    /\ \E r \in Reqs : pc[r] = "done" /\ released[r] = 1 /\ result[r].success
    /\ \E r \in Reqs : pc[r] = "done" /\ released[r] = 1 /\ ~result[r].success

MatchesDenylist(command) == \E b \in BANNED_COMMANDS : toLowerCase(command) = b

NotAllowed ==
    [success |-> FALSE, error |-> <<"Command not allowed.">>, status |-> 403,
     result |-> EmptyObject]

\* C6: a call of redisCommand with a single command whose name matches the
\* denylist case-insensitively returns the 403 result 'Command not allowed.'
\* at once, leaving the pools, the checked-out set, the connections and what
\* has been sent to the backend as they were.
C6_DeniedSingle ==
    [][\A r \in Reqs :
          (/\ pc[r] = "idle" /\ pc'[r] # "idle"
           /\ ~IsPipeline(call'[r].command)
           /\ MatchesDenylist(call'[r].command))
              => /\ pc'[r] = "done"
                 /\ result'[r] = NotAllowed
                 /\ <<pools, inUse, conns, sent, acquired>>'
                        = <<pools, inUse, conns, sent, acquired>>]_vars

\* FlushAll, in mixed case, has been refused
C6_Witness ==
    \E r \in Reqs :
        /\ call[r].command = <<"F","l","u","s","h","A","l","l">>
        /\ pc[r] = "done"
        /\ result[r] = NotAllowed

AdminVerbs ==
    { << <<"s","c","r","i","p","t">>, <<"d","e","b","u","g">> >>,
      << <<"s","c","r","i","p","t">>, <<"f","l","u","s","h">> >>,
      << <<"s","c","r","i","p","t">>, <<"k","i","l","l">> >>,
      << <<"s","c","r","i","p","t">>, <<"l","o","a","d">> >>,
      << <<"s","c","r","i","p","t">>, <<"e","x","i","s","t","s">> >>,
      << <<"m","e","m","o","r","y">>, <<"u","s","a","g","e">> >>,
      << <<"m","e","m","o","r","y">>, <<"s","t","a","t","s">> >>,
      << <<"m","e","m","o","r","y">>, <<"d","o","c","t","o","r">> >>,
      << <<"m","e","m","o","r","y">>, <<"p","u","r","g","e">> >>,
      << <<"m","o","d","u","l","e">>, <<"l","o","a","d">> >>,
      << <<"m","o","d","u","l","e">>, <<"u","n","l","o","a","d">> >>,
      << <<"m","o","d","u","l","e">>, <<"l","i","s","t">> >> }

IsAdminVerb(c) ==
    /\ Len(c.args) >= 1
    /\ <<toLowerCase(c.command), toLowerCase(c.args[1])>> \in AdminVerbs

\* C7: a request for a multi-word administrative verb (SCRIPT LOAD, MEMORY
\* USAGE, MODULE LIST, ...), decoded into a command name and arguments, is
\* refused with the 403 result and never reaches a connection.
C7_MultiWordDenied ==
    \A r \in Reqs :
        (pc[r] # "idle" /\ ~IsPipeline(call[r].command) /\ IsAdminVerb(call[r]))
            => /\ pc[r] = "done"
               /\ result[r] = NotAllowed
               /\ acquired[r] = 0
               /\ sent[r] = <<>>

HasDenied(batch) == \E i \in 1..Len(batch) : MatchesDenylist(batch[i].command)

\* C8: of a pipeline batch that holds a denylisted command, at any position,
\* no command is sent to the backend, the batch is never flushed, and the call
\* returns one failure result.
C8_PipelineAtomicity ==
    \A r \in Reqs :
        (IsPipeline(call[r].command) /\ HasDenied(call[r].args[1]))
            => /\ sent[r] = <<>>
               /\ pc[r] # "flushing"
               /\ pc[r] = "done" => (~result[r].success /\ result[r].status # 200)

\* a batch whose second command is denied has failed, its first command queued
\* on the pipeline object and not sent
C8_Witness ==
    \E r \in Reqs :
        /\ IsPipeline(call[r].command)
        /\ Len(call[r].args[1]) = 3
        /\ MatchesDenylist(call[r].args[1][2].command)
        /\ pc[r] = "done"
        /\ acquired[r] = 1
        /\ Len(queued[r]) = 1

InitFailure ==
    [success |-> FALSE, error |-> ConnectErrorMessage, status |-> 400,
     result |-> EmptyObject]

InitHasFailed(d) ==
    \E r \in Reqs : pc[r] = "done" /\ call[r].dbNumber = d /\ result[r] = InitFailure

PoolIsFull(d) ==
    /\ MapHas(pools, d)
    /\ Cardinality(IdleSet(d)) + Cardinality(CheckedOut(d)) = POOL_SIZE

\* C9: after an initialize(d) that failed, an acquireConnection(d) finds the
\* pool of d holding POOL_SIZE connections, or initializes again, or reports
\* the failure of the initialization.
C9_AllOrNothingInit ==
    [][\A q \in Reqs, d \in DBs :
          (/\ pc[q] = "idle" /\ pc'[q] # "idle"
           /\ call'[q].dbNumber = d
           /\ InitHasFailed(d))
              => \/ PoolIsFull(d)
                 \/ pc'[q] = "init"
                 \/ pc'[q] = "done" /\ result'[q] = InitFailure]_vars

NoInitPending == \A r \in Reqs : initTasks[r] = 0

\* C10: when a reaper pass in which no ping failed has ended and no
\* initialization is under way, every connection that had been checked out
\* for longer than ACQUIRE_TIMEOUT when the pass began, and that has not been
\* released since, is out of the checked-out set and closed, the pass has
\* added one fresh connection for each connection it swept, and the idle and
\* checked-out connections of its database are POOL_SIZE again.
C10_StuckSweep ==
    \A p \in Passes :
        (rp[p].pc = "done" /\ ~rp[p].pingFailed /\ NoInitPending)
            => \A c \in rp[p].stuck :
                   /\ ~MapHas(inUse, c)
                   /\ conns[c].closed
                   /\ c \in rp[p].swept
                   /\ Cardinality(rp[p].fresh) = Cardinality(rp[p].swept)
                   /\ Cardinality(IdleSet(conns[c].db))
                        + Cardinality(CheckedOut(conns[c].db)) = POOL_SIZE

\* C11: no failure inside a reaper pass reaches the process level, and no
\* pass is cut short by one: the process is running and no pass has ended
\* with a rejection.
C11_ReaperAbsorbs ==
    /\ ~crashed
    /\ \A p \in Passes : rp[p].pc # "failed"

AllClosed == \A c \in 1..Len(conns) : conns[c].closed

\* C12: once destroy() has returned, the reaper is off, every connection that
\* was opened is closed, and no pool is registered again (an acquireConnection
\* neither creates a pool nor returns a connection).
C12_Shutdown ==
    dz.pc = "done" => (~timerOn /\ AllClosed /\ pools = <<>> /\ inUse = <<>>)

Structured(res) ==
    \/ /\ res.success
       /\ res.status = 200
       /\ res.error = <<>>
    \/ /\ ~res.success
       /\ res.status = 400
       /\ res.error # <<>>
       /\ res.result = EmptyObject
    \/ res = NotAllowed

TimeoutResult(d) ==
    [success |-> FALSE,
     error |-> <<"Timeout acquiring Redis connection for database ">> \o d,
     status |-> 400, result |-> EmptyObject]

\* C15: every call of redisCommand returns a structured result: a success
\* with status 200 only after a send, and a failure with status 400, a message
\* and result {} when the acquisition timed out, when the initialization
\* failed, or when the backend reported an error.
C15_StructuredOutcomes ==
    /\ [](\A r \in Reqs : pc[r] = "done" =>
              /\ Structured(result[r])
              /\ result[r].success => (acquired[r] = 1 /\ sent[r] # <<>>))
    /\ [][\A r \in Reqs :
             /\ (pc[r] = "waiting" /\ pc'[r] = "done")
                    => result'[r] = TimeoutResult(call[r].dbNumber)
             /\ (pc[r] = "init" /\ pc'[r] = "done")
                    => (result'[r] = InitFailure
                           \/ result'[r] = TimeoutResult(call[r].dbNumber))]_vars

\* the three failures have been returned: a timeout, a failed initialization,
\* a backend error
C15_Witness ==
    /\ \E r \in Reqs : pc[r] = "done" /\ result[r] = TimeoutResult(call[r].dbNumber)
    /\ \E r \in Reqs : pc[r] = "done" /\ result[r] = InitFailure

\* C16: a call of redisCommand that has met a denylisted command, alone or in
\* a pipeline batch, returns the 403 result 'Command not allowed.'.
C16_UniformForbidden ==
    \A r \in Reqs :
        (/\ pc[r] = "done"
         /\ \/ ~IsPipeline(call[r].command) /\ MatchesDenylist(call[r].command)
            \/ /\ IsPipeline(call[r].command)
               /\ HasDenied(call[r].args[1])
               /\ acquired[r] = 1)
            => result[r] = NotAllowed

\* C20: whenever a single command has succeeded at the backend, the value
\* redisCommand returns has status 200 and its result is the empty object if
\* the backend replied 'OK', and the backend's reply itself otherwise.
C20_AckNormalization ==
    \A r \in Reqs :
        (/\ pc[r] = "done"
         /\ backendReply[r] # NoResult
         /\ ~IsPipeline(call[r].command))
        => /\ result[r].success
           /\ result[r].status = 200
           /\ result[r].result = IF backendReply[r] = StrVal("OK")
                                 THEN EmptyObject
                                 ELSE backendReply[r]

C20_Witness ==
    /\ \E r \in Reqs : /\ pc[r] = "done"
                       /\ backendReply[r] = StrVal("OK")
                       /\ result[r].result = EmptyObject
    /\ \E r \in Reqs : /\ pc[r] = "done"
                       /\ IsArray(backendReply[r])
                       /\ result[r].result = backendReply[r]

Lrange == <<"l","r","a","n","g","e">>

NonNumericStrings(items) ==
    \A i \in 1..Len(items) : items[i][1] = "string" /\ ~isNumeric(items[i])

\* C18: whenever LRANGE has succeeded with a list reply that has an even,
\* non-zero number of non-numeric string elements, the response of the handler
\* carries that list, in the backend's order, under the command name.
C18_ListsStayLists ==
    \A r \in Reqs :
        (/\ pc[r] = "done"
         /\ ev[r].stage = "none"
         /\ toLowerCase(call[r].command) = Lrange
         /\ result[r].success
         /\ IsArray(backendReply[r])
         /\ Len(backendReply[r][2]) > 0
         /\ Len(backendReply[r][2]) % 2 = 0
         /\ NonNumericStrings(backendReply[r][2]))
        => HttpResponse(r) = Response(200, call[r].command, backendReply[r])

FailedAtBackend(r) ==
    /\ pc[r] = "done"
    /\ ev[r].stage = "none"
    /\ ~IsPipeline(call[r].command)
    /\ sent[r] # <<>>
    /\ ~result[r].success

\* C19: whenever a command has failed at the backend, the response of the
\* handler has the failure status and, under the command name, an object whose
\* "error" field is the error message.
C19_ErrorCarriesMessage ==
    \A r \in Reqs :
        FailedAtBackend(r)
        => HttpResponse(r) =
               Response(result[r].status, call[r].command,
                        ObjVal(<<[k |-> ErrorKey, v |-> result[r].error]>>))

Dispatched(r) == ev[r].stage # "none"

Registered(r) == Dispatched(r) /\ scriptHash(r) \in Scripts

Unregistered(r) == Dispatched(r) /\ scriptHash(r) \notin Scripts

\* the redisCommand call that hands the EVALSHA request to the backend as it came
Forwarded(r) ==
    [command |-> ev[r].bodyArray[2],
     dbNumber |-> ev[r].bodyArray[1],
     args |-> SubSeq(ev[r].bodyArray, 3, Len(ev[r].bodyArray))]

\* C13: an EVALSHA request whose identifier is a script of ./scripts is never
\* handed to redisCommand as EVALSHA: it is answered by the handler with
\* status 200, or with status 400 and an "error" field.
C13_RegisteredStaysLocal ==
    \A r \in Reqs :
        Registered(r)
        => /\ ev[r].stage # "native"
           /\ toLowerCase(call[r].command) # Evalsha
           /\ ev[r].stage = "local"
              => \/ ev[r].response.status = 200
                 \/ ev[r].response.status = 400 /\ ev[r].response.key = ErrorKey

\* C14: an EVALSHA request whose identifier is no script of ./scripts is
\* never answered by the dispatch itself: when the import has failed the
\* request is in redisCommand with the command, database, identifier and
\* arguments it came with, what is sent to the backend is that command, and
\* the response is never the dispatcher's "not found" error.
C14_UnregisteredFallsBack ==
    /\ [](\A r \in Reqs :
            Unregistered(r)
            => /\ ev[r].stage \in {"import", "native"}
               /\ ev[r].stage = "native" => call[r] = Forwarded(r)
               /\ sent[r] \in {<<>>, <<ev[r].bodyArray[2]>>}
               /\ HttpResponse(r) #
                      Response(400, ErrorKey, ScriptNotFoundMessage(scriptHash(r))))
    /\ [][\A r \in Reqs :
            (pc[r] = "import" /\ Unregistered(r) /\ pc'[r] # "import")
            => ev'[r].stage = "native" /\ call'[r] = Forwarded(r)]_vars

C14_Witness ==
    \E r \in Reqs :
        /\ Unregistered(r)
        /\ pc[r] = "done"
        /\ result[r].success
        /\ sent[r] = <<ev[r].bodyArray[2]>>
        /\ call[r].dbNumber = <<"0">>
        /\ HttpResponse(r).status = 200

\* every idle connection of pool d was opened to database d
IdleOpenedTo ==
    \A d \in DBs : \A c \in IdleSet(d) : conns[c].db = d

\* every connection a request holds was opened to the database of the request
HeldOpenedTo ==
    \A r \in Reqs : client[r] # NoClient => conns[client[r]].db = call[r].dbNumber

\* what a GET of r through its database index has to return
ReadBack(r) ==
    IF MapHas(store.written[call[r].dbNumber], call[r].args[1])
    THEN BulkVal(MapGet(store.written[call[r].dbNumber], call[r].args[1]))
    ELSE NilVal

\* C17: every idle connection of pool d and every connection handed out for d
\* was opened to database d, and a successful GET on index d returns the value
\* last written to the key through index d, or nothing if no request on d has
\* written it, whatever requests ran on the other indexes.
C17_DatabaseIsolation ==
    /\ [](IdleOpenedTo /\ HeldOpenedTo)
    /\ [][\A r \in Reqs :
            (/\ pc[r] = "sending"
             /\ pc'[r] = "done"
             /\ toLowerCase(call[r].command) = <<"g","e","t">>
             /\ result'[r].success)
            => result'[r].result = ReadBack(r)]_vars

\* C27: no idle set holds a connection on which the reaper has called
\* client.quit(), and no acquireConnection hands such a connection to a
\* request.
C27_NoClosedPooled ==
    /\ [](\A d \in DBs : \A c \in IdleSet(d) : ~conns[c].closed)
    /\ [][\A r \in Reqs :
            (client[r] = NoClient /\ client'[r] # NoClient)
            => ~conns[client'[r]].closed]_vars

Probed(c) == \E p \in Passes : rp[p].pc = "ping" /\ rp[p].client = c

\* C21: while a reaper pass awaits the ping of a connection, no request
\* acquires or releases that connection; the reaper closes a checked-out
\* connection only if it has been held for longer than ACQUIRE_TIMEOUT; and
\* no pass closes, to replace it, a connection that is already closed.
C21_ReaperAtomic ==
    /\ [][\A r \in Reqs :
            client'[r] # client[r] => (~Probed(client'[r]) /\ ~Probed(client[r]))]_vars
    /\ [][\A c \in 1..Len(conns) :
            (~conns[c].closed /\ conns'[c].closed /\ MapHas(inUse, c))
            => IsStuck(MapGet(inUse, c))]_vars
    /\ [][\A p \in Passes :
            (rp[p].pc \notin {"quit1", "quit2"} /\ rp'[p].pc \in {"quit1", "quit2"})
            => ~conns[rp'[p].client].closed]_vars

Releases(r) == released'[r] = released[r] + 1

\* C23: a releaseConnection for a connection that is not in the checked-out
\* set leaves the pools and the checked-out set as they were; a
\* releaseConnection for a checked-out connection takes it out of the
\* checked-out set and puts it into the idle set of its database with the
\* current time as last-used time, and moves no other connection.
C23_ReleaseNoOp ==
    [][\A r \in Reqs :
          Releases(r)
          => IF MapHas(inUse, client[r])
             THEN /\ ~MapHas(inUse', client[r])
                  /\ client[r] \in IdleSet(call[r].dbNumber)'
                  /\ MapGet(Pool(call[r].dbNumber)', client[r]) = now
                  /\ \A c \in 1..Len(conns) :
                        c # client[r] => /\ InIdle(c)' = InIdle(c)
                                         /\ InCheckedOut(c)' = InCheckedOut(c)
             ELSE pools' = pools /\ inUse' = inUse]_vars

\* the stuck sweep has taken a connection out of the checked-out set and its
\* holder has released it afterwards: the connection is in no idle set
C23_Witness ==
    /\ \E p \in Passes : \E c \in rp[p].swept : ~InIdle(c) /\ ~InCheckedOut(c)
    /\ \A r \in Reqs : acquired[r] = 1 /\ released[r] = 1
    /\ \E d \in DBs : IdleSet(d) # {}

OpenedTo(d) == {c \in 1..Len(conns) : conns[c].db = d}

Initializing(d) == {r \in Reqs : pc[r] = "init" /\ call[r].dbNumber = d}

InitSettled(d) ==
    /\ MapHas(pools, d)
    /\ \A r \in Reqs : call[r].dbNumber = d => (initTasks[r] = 0 /\ initErr[r] = "")

\* C24: a call starts initialize(d) only when no pool is registered for d, no
\* other call is initializing d and no connection has been opened to d; a call
\* that arrives while the pool of d is registered and empty waits and starts
\* no connection; no more than POOL_SIZE connections are opened to d, and
\* exactly POOL_SIZE once every attempt of the one initialization has succeeded.
C24_SingleLazyInit ==
    /\ [][\A r \in Reqs :
            /\ (pc[r] = "idle" /\ pc'[r] = "init")
               => /\ ~MapHas(pools, call'[r].dbNumber)
                  /\ Initializing(call'[r].dbNumber) = {}
                  /\ OpenedTo(call'[r].dbNumber) = {}
                  /\ initTasks'[r] = POOL_SIZE
            /\ (/\ pc[r] = "idle" /\ pc'[r] # "idle"
                /\ MapHas(pools, call'[r].dbNumber)
                /\ IdleSet(call'[r].dbNumber) = {})
               => /\ pc'[r] = "waiting"
                  /\ initTasks' = initTasks
                  /\ conns' = conns]_vars
    /\ [](\A d \in DBs :
            /\ Cardinality(OpenedTo(d)) <= POOL_SIZE
            /\ Cardinality(Initializing(d)) <= 1
            /\ InitSettled(d) => Cardinality(OpenedTo(d)) = POOL_SIZE)

\* two calls have arrived while the first caller's initialize awaits its
\* connections: they wait
C24_Witness ==
    \E r \in Reqs :
        /\ pc[r] = "init"
        /\ initTasks[r] > 0
        /\ Cardinality({q \in Reqs : pc[q] = "waiting"
                                      /\ call[q].dbNumber = call[r].dbNumber}) = 2

\* pass p resumes in this step
Moves(p) == <<rp[p].pc, rp[p].di, rp[p].oi, rp[p].ui>>' # <<rp[p].pc, rp[p].di, rp[p].oi, rp[p].ui>>

\* pass p selects a connection for client.ping() in this step
Selects(p) == Moves(p) /\ rp'[p].pc = "ping"

\* c is in the idle set of database d with a last-used time younger than
\* MAX_IDLE_TIME
YoungIdle(c, d) == c \in IdleSet(d) /\ ~IsStale(MapGet(Pool(d), c))

\* C25: in a reaper pass, an idle connection younger than MAX_IDLE_TIME is
\* neither probed nor removed; a stale idle connection whose ping succeeds stays
\* in the idle set; a stale idle connection whose ping fails is taken out of the
\* idle set and closed; and the replacement that follows opens exactly one
\* connection to the same database and puts it into that idle set, so that the
\* pool has the size it had.
C25_IdleHealthCheck ==
    [][\A p \in Passes :
          /\ Selects(p)
             => \A d \in DBs, c \in 1..MaxConns :
                   (d = rp'[p].dbNumber /\ c = rp'[p].client) => ~YoungIdle(c, d)'
          /\ (rp[p].pc = "ping" /\ Moves(p) /\ rp'[p].pc # "quit1")
             => \A d \in DBs : (d = rp[p].dbNumber /\ rp[p].client \in IdleSet(d))
                   => rp[p].client \in IdleSet(d)'
          /\ (rp[p].pc = "ping" /\ rp'[p].pc = "quit1")
             => \A d \in DBs : (d = rp[p].dbNumber /\ rp[p].client \in IdleSet(d))
                   => /\ rp[p].client \notin IdleSet(d)'
                      /\ conns'[rp[p].client].closed
          /\ (rp[p].pc = "create1" /\ rp'[p].pc # "create1")
             => \A d \in DBs : d = rp[p].dbNumber
                   => /\ Len(conns') = Len(conns) + 1
                      /\ conns'[Len(conns')].db = d
                      /\ IdleSet(d)' = IdleSet(d) \cup {Len(conns')}]_vars

Hmget == <<"h","m","g","e","t">>

\* a list reply reads as alternating names and values: even non-zero length,
\* every even-indexed element a string, some even-indexed element different
\* from the element that follows it, and not every element numeric-like
ReadsAsPairs(items) ==
    /\ Len(items) % 2 = 0
    /\ Len(items) > 0
    /\ \A i \in 1..Len(items) : i % 2 = 1 => items[i][1] = "string"
    /\ \E i \in 1..Len(items) : i % 2 = 1 /\ ~sameItem(items[i], items[i + 1])
    /\ ~(\A i \in 1..Len(items) : isNumeric(items[i]))

\* the position of the name at index i among the distinct names of the list,
\* in the order they are first seen
FirstPosition(items, i) ==
    Cardinality({ items[j][2] : j \in {h \in 1..i : h % 2 = 1} })

\* object m maps each name of the list to an element that follows it
MapsPairs(m, items) ==
    /\ MapKeys(m) = { items[i][2] : i \in {h \in 1..Len(items) : h % 2 = 1} }
    /\ \A n \in 1..Len(m) :
          \E i \in 1..Len(items) :
              i % 2 = 1 /\ items[i][2] = m[n].k /\ sameItem(items[i + 1], m[n].v)

\* a name that occurs twice in the list has, in object m, the position at
\* which it was first seen
DuplicatesKeepPosition(m, items) ==
    \A i, j \in 1..Len(items) :
        (i % 2 = 1 /\ j % 2 = 1 /\ i < j /\ items[i][2] = items[j][2])
        => MapIndex(m, items[i][2]) = FirstPosition(items, i)

ShapeDone(r) ==
    /\ pc[r] = "done"
    /\ ev[r].stage = "none"
    /\ result[r].success
    /\ IsArray(backendReply[r])

\* C26: whenever a command has succeeded with a list reply, the response of the
\* handler carries, under the command name, an object that maps each
\* even-indexed element to the element that follows it, a duplicate name
\* keeping its first position, exactly when the command is not HMGET (in any
\* case of letters) and the list reads as alternating names and values; in
\* every other case it carries the list unchanged.
C26_ReplyShape ==
    \A r \in Reqs :
        ShapeDone(r)
        => LET items == backendReply[r][2]
               value == HttpResponse(r).value
           IN  IF toLowerCase(call[r].command) # Hmget /\ ReadsAsPairs(items)
               THEN /\ value[1] = "object"
                    /\ MapsPairs(value[2], items)
                    /\ DuplicatesKeepPosition(value[2], items)
               ELSE value = backendReply[r]

====
